---- MODULE Spec2Model ----
(***************************************************************************)
(* Weekly visit plans of school supervisors (Django app "visits").         *)
(*                                                                         *)
(* The database rows the plan workflow reads and writes are the state:     *)
(* PlanWeek.is_break, Plan (status, saved_at, approved_at) with its        *)
(* PlanDay rows, UnlockRequest (status, resolved_at), and the session key  *)
(* holding the logged-in supervisor.  Every view / admin hook is one       *)
(* action: a request is handled synchronously, start to end.               *)
(*                                                                         *)
(* Timestamps: 0 stands for NULL.  timezone.now() written over a field is  *)
(* modelled by Now(old), a stamp different from the value the field held:  *)
(* of a timestamp only NULL-ness and equality with the value stored before *)
(* are observed, so the smallest stamp other than the old one is taken.    *)
(***************************************************************************)
EXTENDS Integers, FiniteSets, Sequences, TLC

VARIABLES
    supervisors, \* ids of the active Supervisor rows
    session,     \* request.session["visits_sup_id"]: supervisor id, 0 when absent
    week_break,  \* PlanWeek rows: is_break, per week_no
    plans,       \* Plan rows keyed by <<supervisor, week_no>> (uniq_plan_supervisor_week)
    unlock,      \* UnlockRequest rows keyed by their plan (uniq_unlock_request_plan)
    req,         \* the request handled last and its response
    inflight,    \* plan_view POSTs being handled statement by statement, per worker
    norm,        \* a spreadsheet cell, the import normaliser applied to it, its result
    db,          \* School, Supervisor and Assignment rows as the import pages see them
    imp          \* the import submission handled last and its outcome

vars == <<supervisors, session, week_break, plans, unlock, req, inflight, norm, db, imp>>

\* what the login, plan and manager pages never touch
apart == <<norm, db, imp>>

\* what the views handled start to end never touch
aside == <<inflight, apart>>

\* what the import pages and the normalisers never touch
pages == <<supervisors, session, week_break, plans, unlock, req, inflight>>

(* ------------------------------ bounds ------------------------------- *)
NumSchools == 1     \* School rows
NumStamps  == 2     \* distinguishable non-NULL timestamps
MaxEmptyDays == 1   \* a submitted schedule leaves at most this many weekdays empty,
                    \* or all of them
BadDay     == 2     \* the weekday that carries the bad school id, when one does
MaxAdminDays == 1   \* PlanDay rows edited in the admin site: weekdays below this
NumWorkers == 2     \* server workers handling plan_view POSTs at the same time
MaxPosts   == 1     \* POSTs of the plan page one worker handles step by step
MaxCellLen == 3     \* characters of a spreadsheet cell given to a normaliser
MaxFiles   == 2     \* files uploaded in one submission of the import form

Schools  == 1..NumSchools
Workers  == 1..NumWorkers
Stamps   == 1..NumStamps

Min(S) == CHOOSE x \in S : \A y \in S : x <= y
Max(S) == CHOOSE x \in S : \A y \in S : x >= y

(* ------------------------- program constants -------------------------- *)
WEEKDAYS == 0..4

STATUS_DRAFT            == "draft"
STATUS_APPROVED         == "approved"
STATUS_UNLOCK_REQUESTED == "unlock"

VISIT_IN     == "in"
VISIT_REMOTE == "remote"
VISIT_NONE   == "none"

UR_PENDING  == "pending"
UR_APPROVED == "approved"
UR_REJECTED == "rejected"

NoSup    == 0                   \* no supervisor in the session
NoSchool == 0                   \* PlanDay.school is NULL / form field empty
NoStamp  == 0                   \* NULL DateTimeField
NoKey    == <<0, 0>>            \* a plan id that matches no Plan row
BadSid   == NumSchools + 1      \* a submitted school id that names no School row

\* the week numbers with a PlanWeek row, and one without
Weeks  == DOMAIN week_break
NoWeek == Max(Weeks) + 1

(* ------------------------------ helpers ------------------------------ *)
\* timezone.now() stored over a field that held `old`
Now(old) == Min(Stamps \ {old})

\* f with key k set to v (a new row, or an existing one replaced)
Put(f, k, v) == [x \in DOMAIN f \cup {k} |-> IF x = k THEN v ELSE f[x]]

\* f without key k
Drop(f, k) == [x \in DOMAIN f \ {k} |-> f[x]]

\* variant of is_fully_filled that never looks at the last weekday
is_fully_filled_short(days) ==
    \A wd \in WEEKDAYS \ {Max(WEEKDAYS)} :
        wd \in DOMAIN days
        /\ (days[wd].school # NoSchool \/ days[wd].visit_type = VISIT_NONE)

\* Plan.is_fully_filled over the plan's PlanDay rows
is_fully_filled(days) ==
    LET filled == {wd \in DOMAIN days :
                     days[wd].school # NoSchool \/ days[wd].visit_type = VISIT_NONE}
    IN  WEEKDAYS \subseteq filled

\* views._plan_filled_count: weekdays whose PlanDay has a school
plan_filled_count(days) ==
    Cardinality({wd \in WEEKDAYS : wd \in DOMAIN days /\ days[wd].school # NoSchool})

\* Plan.objects.create defaults
NewPlan == [status |-> STATUS_DRAFT, saved_at |-> NoStamp,
            approved_at |-> NoStamp, days |-> <<>>]

\* views._get_logged_in_supervisor / _require_supervisor
require_supervisor == IF session \in supervisors THEN session ELSE NoSup

\* views._get_default_week_no: first non-break week, else 1
get_default_week_no ==
    LET active == {w \in Weeks : ~week_break[w]}
    IN  IF active = {} THEN 1 ELSE Min(active)

\* variant of resolve_week that forgets the is_break filter
resolve_week_any(week_no) == week_no \in Weeks

\* views._resolve_week_or_404(week_no, allow_inactive=False): TRUE when found
resolve_week(week_no) == week_no \in Weeks /\ ~week_break[week_no]

\* variant of the edit guard that locks approved plans only
EditLocked_approved_only(status) == status = STATUS_APPROVED

\* the edit guard of views.plan_view
EditLocked(status) == status \in {STATUS_APPROVED, STATUS_UNLOCK_REQUESTED}

\* A response: the view that answered, the request's method, its "action"
\* field and week number (plan_view), the plan it is about, how the view
\* ended, whether it reports success (JSON "ok"; a success or info message
\* rather than a warning), whether it was an AJAX request, the HTTP status;
\* and the form fields the view read (plan_view: the submitted schedule;
\* login_view: the credentials it accepted; the manager views on the AJAX
\* path: the "filled" and "is_full" entries of the JSON payload).
Resp(op, outcome) ==
    [op |-> op, method |-> "POST", action |-> "", week |-> 0, key |-> NoKey,
     outcome |-> outcome, ok |-> TRUE, ajax |-> FALSE, code |-> 302,
     form |-> <<>>, cred |-> <<>>, filled |-> 0, is_full |-> FALSE]

\* A request turned away before its view looked at any plan row (login or
\* staff login required, method not allowed, no such plan, bad credentials).
Refused == req' = Resp("refused", "refused")

\* a worker that is handling no plan_view POST and has handled none
Idle == [stage |-> "idle", posts |-> 0]

\* A text is a sequence of characters.  The characters told apart: the ASCII
\* digits, one decimal digit outside ASCII ("ar3": ARABIC-INDIC DIGIT THREE,
\* for which str.isdigit() is true as well), and separators.
AsciiDigits == {"0", "1", "2", "3", "4", "5", "6", "7", "8", "9"}
OtherDigits == {"ar3"}

\* str.isdigit() on one character
isdigit(ch) == ch \in AsciiDigits \cup OtherDigits

\* views._digits
digits(s) == SelectSeq(s, isdigit)

\* d[-n:]
LastChars(d, n) == SubSeq(d, Len(d) - n + 1, Len(d))

NID_LEN   == 10    \* login_view: len(nid) != 10
LAST4_LEN == 4     \* login_view: len(last4) != 4; _supervisor_last4: d[-4:]

\* The Supervisor rows: 1 and 4 can log in, 2 is not active, 3 has a mobile
\* of fewer than four digits.
Nid1 == <<"1", "0", "2", "3", "4", "5", "6", "7", "8", "9">>
Nid2 == [Nid1 EXCEPT ![NID_LEN] = "2"]
Nid3 == [Nid1 EXCEPT ![NID_LEN] = "3"]
Nid4 == [Nid1 EXCEPT ![NID_LEN] = "4"]
Mobile1 == <<"0", "5", "0", "-", "1", "2", "3", " ", "4", "5", "6", "7">>
Mobile4 == <<"0", "5", "8", "9", "1", "2">>

SupervisorTable ==
    (1 :> [national_id |-> Nid1, mobile |-> Mobile1, is_active |-> TRUE])
    @@ (2 :> [national_id |-> Nid2, mobile |-> Mobile1, is_active |-> FALSE])
    @@ (3 :> [national_id |-> Nid3, mobile |-> <<"6", "7">>, is_active |-> TRUE])
    @@ (4 :> [national_id |-> Nid4, mobile |-> Mobile4, is_active |-> TRUE])

(* ---------------------- import: cell normalisers --------------------- *)
\* The characters of a spreadsheet cell told apart: two ASCII digits, a
\* non-ASCII decimal digit, a dot, a dash, a blank, a letter in both cases.
CellChars == {"0", "7", "ar3", ".", "-", " ", "m", "M"}

Cells == UNION {[1..n -> CellChars] : n \in 0..MaxCellLen}

\* str.strip()
RECURSIVE lstrip(_)
lstrip(s) == IF s # <<>> /\ Head(s) = " " THEN lstrip(Tail(s)) ELSE s

RECURSIVE rstrip(_)
rstrip(s) ==
    IF s # <<>> /\ s[Len(s)] = " " THEN rstrip(SubSeq(s, 1, Len(s) - 1)) ELSE s

strip(s) == rstrip(lstrip(s))

\* s.replace(".0", ""): every occurrence, left to right
RECURSIVE replace_dot0(_)
replace_dot0(s) ==
    IF Len(s) < 2 THEN s
    ELSE IF s[1] = "." /\ s[2] = "0" THEN replace_dot0(SubSeq(s, 3, Len(s)))
    ELSE <<s[1]>> \o replace_dot0(Tail(s))

\* re: \d on str matches every Unicode decimal digit
re_digit(ch) == ch \in AsciiDigits \cup OtherDigits

\* re: [A-Za-z0-9]
re_ascii_alnum(ch) == ch \in AsciiDigits \cup {"m", "M"}

not_blank(ch) == ch # " "

\* str.upper() on one character
upper(ch) == IF ch = "m" THEN "M" ELSE ch

\* views_import._norm, importers._cell
cell_text(v) == strip(v)

\* views_import._digits
import_digits(v) ==
    LET s == cell_text(v)
    IN  IF s = <<>> THEN <<>>
        ELSE SelectSeq(strip(replace_dot0(s)), re_digit)

\* importers._digits
importers_digits(v) ==
    LET s == cell_text(v)
    IN  IF s = <<>> THEN <<>>
        ELSE SelectSeq(strip(replace_dot0(s)), re_digit)

\* views_import._code
import_code(v) ==
    LET s == cell_text(v)
    IN  IF s = <<>> THEN <<>>
        ELSE SelectSeq(strip(replace_dot0(s)), not_blank)

\* importers._code
importers_code(v) ==
    LET s == cell_text(v)
        t == SelectSeq(strip(replace_dot0(s)), re_ascii_alnum)
    IN  IF s = <<>> THEN <<>>
        ELSE [i \in 1..Len(t) |-> upper(t[i])]

(* -------------------------- import: tables --------------------------- *)
\* School rows keyed by stat_code, Supervisor rows keyed by national_id (both
\* unique), Assignment rows keyed by <<national_id, stat_code>>
\* (uniq_assignment_sup_school).
EmptyDb == [schools |-> <<>>, supervisors |-> <<>>, assignments |-> <<>>]

\* An uploaded file: missing from the form, unreadable (load_workbook
\* raises), or a sheet of rows.
Absent  == [state |-> "absent", rows |-> <<>>]
Corrupt == [state |-> "corrupt", rows |-> <<>>]
Sheet(rows) == [state |-> "sheet", rows |-> rows]

\* a submission of the import form
Upload(boys, girls, sups, asgs) ==
    [schools_boys |-> boys, schools_girls |-> girls,
     supervisors |-> sups, assignments |-> asgs]

\* no import handled yet
NoImport ==
    [entry |-> "", sub |-> Upload(Absent, Absent, Absent, Absent),
     raised |-> FALSE, code |-> 200, results |-> <<>>, rejected |-> <<>>,
     stored |-> <<>>, staff |-> TRUE, sent |-> <<>>]

\* no normaliser applied yet to cell v
Unapplied(v) == [cell |-> v, fn |-> "", out |-> <<>>]

(* ----------------------- import: row by row ------------------------- *)
\* A sheet row carries the cells of the columns its importer reads, under their
\* canonical names; names are kept as read by _norm ("": empty), the
\* "is_active" cell is "absent" when the sheet has no such column and "" when
\* the cell is empty.
\* The running state of one import function: the tables as written so far,
\* its counters, the rejected rows so far, whether it raised.
Begin(tables, rejected) ==
    [db |-> tables, created |-> 0, updated |-> 0, skipped |-> 0,
     rejected |-> rejected, raised |-> FALSE]

\* a reason text and the value formatted into it
Reason(text, id) == [text |-> text, id |-> id]

\* views_import._to_bool, on the cells "0" and "1"
to_bool(v) == v # "0"

\* the "is_active" default of views_import
is_active_of(r) == IF r.is_active # "absent" THEN to_bool(r.is_active) ELSE TRUE

\* variant of _rej_add that counts the row and records nothing
_rej_add_count_only(a, row, reason, importer) ==
    [a EXCEPT !.skipped = @ + 1]

\* st.skipped += 1 with views_import._rej_add
_rej_add(a, row, reason, importer) ==
    [a EXCEPT !.skipped = @ + 1,
              !.rejected = Append(@, [row |-> row, reason |-> reason,
                                      importer |-> importer])]

\* importers.ImportResult.reject
reject(a, source, reason, row) ==
    [a EXCEPT !.skipped = @ + 1,
              !.rejected = Append(@, [row |-> row, reason |-> reason,
                                      source |-> source])]

\* update_or_create with defaults naming fields the model has
update_or_create(a, table, key, defaults) ==
    IF key \in DOMAIN a.db[table]
       THEN [a EXCEPT !.db[table][key] = defaults, !.updated = @ + 1]
       ELSE [a EXCEPT !.db[table] = Put(@, key, defaults), !.created = @ + 1]

\* update_or_create with defaults naming fields the model lacks (School has
\* no education_type and no stage, Supervisor no department): an existing row
\* is updated, creating one raises FieldError
update_or_raise(a, table, key, defaults) ==
    IF key \in DOMAIN a.db[table]
       THEN [a EXCEPT !.db[table][key] = defaults, !.updated = @ + 1]
       ELSE [a EXCEPT !.raised = TRUE]

\* variant of _import_assignments_row that never looks the supervisor up
_import_assignments_row_any_supervisor(a, r) ==
    LET sup_nid == import_digits(r.supervisor_national_id)
        school_stat_code == import_code(r.school_stat_code)
    IN  IF sup_nid = <<>> \/ school_stat_code = <<>>
           THEN _rej_add(a, r, Reason("missing", <<>>), "assignments")
        ELSE IF school_stat_code \notin DOMAIN a.db.schools
           THEN _rej_add(a, r, Reason("no_school", school_stat_code), "assignments")
        ELSE update_or_create(a, "assignments", <<sup_nid, school_stat_code>>,
                 [is_active |-> is_active_of(r)])

\* ---- views_import (the import page)
_import_schools_row(a, r, gender) ==
    LET stat_code == import_code(r.stat_code)
    IN  IF stat_code = <<>> \/ r.name = ""
           THEN _rej_add(a, r, Reason("missing", <<>>), "schools")
        ELSE update_or_raise(a, "schools", stat_code,
                 [name |-> r.name, gender |-> gender, is_active |-> is_active_of(r)])

_import_supervisors_row(a, r) ==
    LET national_id == import_digits(r.national_id)
    IN  IF national_id = <<>> \/ r.full_name = ""
           THEN _rej_add(a, r, Reason("missing", <<>>), "supervisors")
        ELSE update_or_raise(a, "supervisors", national_id,
                 [full_name |-> r.full_name, is_active |-> TRUE])

_import_assignments_row(a, r) ==
    LET sup_nid == import_digits(r.supervisor_national_id)
        school_stat_code == import_code(r.school_stat_code)
    IN  IF sup_nid = <<>> \/ school_stat_code = <<>>
           THEN _rej_add(a, r, Reason("missing", <<>>), "assignments")
        ELSE IF sup_nid \notin DOMAIN a.db.supervisors
           THEN _rej_add(a, r, Reason("no_supervisor", sup_nid), "assignments")
        ELSE IF school_stat_code \notin DOMAIN a.db.schools
           THEN _rej_add(a, r, Reason("no_school", school_stat_code), "assignments")
        ELSE update_or_create(a, "assignments", <<sup_nid, school_stat_code>>,
                 [is_active |-> is_active_of(r)])

\* ---- importers (views_manager.import_view)
import_schools_row(a, r, gender) ==
    LET stat_code == importers_code(r.stat_code)
        source    == IF gender = "boys" THEN "schools_boys" ELSE "schools_girls"
    IN  IF stat_code = <<>> \/ r.name = ""
           THEN reject(a, source, Reason("missing", <<>>), r)
        ELSE update_or_raise(a, "schools", stat_code,
                 [name |-> r.name, gender |-> gender, is_active |-> TRUE])

import_supervisors_row(a, r) ==
    LET national_id == importers_digits(r.national_id)
    IN  IF national_id = <<>> \/ r.full_name = ""
           THEN reject(a, "supervisors", Reason("missing", <<>>), r)
        ELSE update_or_raise(a, "supervisors", national_id,
                 [full_name |-> r.full_name, is_active |-> TRUE])

import_assignments_row(a, r) ==
    LET sup_id    == importers_digits(r.supervisor_national_id)
        stat_code == importers_code(r.school_stat_code)
    IN  IF sup_id = <<>> \/ stat_code = <<>>
           THEN reject(a, "assignments", Reason("missing", <<>>), r)
        ELSE IF sup_id \notin DOMAIN a.db.supervisors
           THEN reject(a, "assignments", Reason("no_supervisor", sup_id), r)
        ELSE IF stat_code \notin DOMAIN a.db.schools
           THEN reject(a, "assignments", Reason("no_school", stat_code), r)
        ELSE update_or_create(a, "assignments", <<sup_id, stat_code>>,
                 [is_active |-> TRUE])

\* ---- views (admin_import_view)
skip(a) == [a EXCEPT !.skipped = @ + 1]

import_schools_excel_row(a, r, gender) ==
    LET stat_code == strip(r.stat_code)
    IN  IF stat_code = <<>> \/ r.name = "" THEN skip(a)
        ELSE update_or_create(a, "schools", stat_code,
                 [name |-> r.name, gender |-> gender, is_active |-> TRUE])

import_supervisors_excel_row(a, r) ==
    LET nid == digits(strip(r.national_id))
    IN  IF Len(nid) # NID_LEN \/ r.full_name = "" THEN skip(a)
        ELSE update_or_create(a, "supervisors", nid,
                 [full_name |-> r.full_name, is_active |-> TRUE])

import_assignments_excel_row(a, r) ==
    LET sup_nid     == digits(strip(r.supervisor_national_id))
        stat_code   == strip(r.school_stat_code)
        stat_digits == digits(stat_code)
        school == IF stat_code \in DOMAIN a.db.schools THEN stat_code
                  ELSE IF stat_digits # <<>> /\ stat_digits \in DOMAIN a.db.schools
                     THEN stat_digits
                  ELSE <<>>
    IN  IF Len(sup_nid) # NID_LEN \/ stat_code = <<>> THEN skip(a)
        ELSE IF sup_nid \notin DOMAIN a.db.supervisors THEN skip(a)
        ELSE IF school = <<>> THEN skip(a)
        ELSE update_or_create(a, "assignments", <<sup_nid, school>>,
                 [is_active |-> TRUE])

(* ------------------------ import: file by file ----------------------- *)
\* the loop body of the import function named fn
import_row(fn, gender, a, r) ==
    CASE fn = "_import_schools"          -> _import_schools_row(a, r, gender)
      [] fn = "_import_supervisors"      -> _import_supervisors_row(a, r)
      [] fn = "_import_assignments"      -> _import_assignments_row(a, r)
      [] fn = "import_schools"           -> import_schools_row(a, r, gender)
      [] fn = "import_supervisors"       -> import_supervisors_row(a, r)
      [] fn = "import_assignments"       -> import_assignments_row(a, r)
      [] fn = "import_schools_excel"     -> import_schools_excel_row(a, r, gender)
      [] fn = "import_supervisors_excel" -> import_supervisors_excel_row(a, r)
      [] fn = "import_assignments_excel" -> import_assignments_excel_row(a, r)

\* the rows of a sheet in turn, until one raises
RECURSIVE each_row(_, _, _, _)
each_row(fn, gender, a, rows) ==
    IF rows = <<>> \/ a.raised THEN a
    ELSE each_row(fn, gender, import_row(fn, gender, a, Head(rows)), Tail(rows))

\* one import function on one file: load_workbook, then the rows
import_file(fn, gender, file, tables, rejected) ==
    IF file.state = "corrupt"
       THEN [Begin(tables, rejected) EXCEPT !.raised = TRUE]
       ELSE each_row(fn, gender, Begin(tables, rejected), file.rows)

\* The running state of a view: the tables as its finished import functions
\* left them, the results and rejected rows collected, whether one raised.
Started == [db |-> db, results |-> <<>>, rejected |-> <<>>, raised |-> FALSE]

\* "if form.cleaned_data.get(field): results[label] = importer(file)"
import_field(run, fn, gender, file, label) ==
    IF run.raised \/ file.state = "absent" THEN run
    ELSE LET a == import_file(fn, gender, file, run.db, run.rejected)
         IN  IF a.raised THEN [run EXCEPT !.raised = TRUE]
             ELSE [db |-> a.db, rejected |-> a.rejected, raised |-> FALSE,
                   results |-> Put(run.results, label,
                                   [created |-> a.created, updated |-> a.updated,
                                    skipped |-> a.skipped])]

\* ImportExcelForm.clean: at least one file
form_is_valid(sub) ==
    \E f \in DOMAIN sub : sub[f].state # "absent"

\* the outcome of a submission: the view, the files, whether it raised, the
\* HTTP status, the results shown, the rejected rows collected and those kept
\* in the session; whether the request came from a staff login; the rejected
\* rows sent in the response body
Outcome(entry, sub, run, code, stored) ==
    [entry |-> entry, sub |-> sub, raised |-> run.raised, code |-> code,
     results |-> run.results, rejected |-> run.rejected, stored |-> stored,
     staff |-> TRUE, sent |-> <<>>]

\* the same for a request of the given login
OutcomeOf(staff, o) == [o EXCEPT !.staff = staff]

\* views_import.manager_import_view: one transaction.atomic around all files,
\* no exception handler, no login check (staff: whether the request comes from
\* a staff login, which the view never reads); the rejected rows go to the
\* session
manager_import_view(staff, method, sub) ==
    LET r1 == import_field(Started, "_import_schools", "boys", sub.schools_boys, "schools_boys")
        r2 == import_field(r1, "_import_schools", "girls", sub.schools_girls, "schools_girls")
        r3 == import_field(r2, "_import_supervisors", "", sub.supervisors, "supervisors")
        r4 == import_field(r3, "_import_assignments", "", sub.assignments, "assignments")
    IN
    /\ UNCHANGED <<pages, norm>>
    /\ IF method # "POST"
          THEN /\ UNCHANGED db
               /\ imp' = OutcomeOf(staff, Outcome("manager_import_view", NoImport.sub,
                                            Started, 200, <<>>))
       ELSE IF ~form_is_valid(sub)
          THEN /\ UNCHANGED db
               /\ imp' = OutcomeOf(staff, Outcome("manager_import_view", sub,
                                            Started, 200, imp.stored))
       ELSE IF r4.raised
          THEN /\ UNCHANGED db
               /\ imp' = OutcomeOf(staff, Outcome("manager_import_view", sub,
                                            [Started EXCEPT !.raised = TRUE],
                                            500, imp.stored))
       ELSE /\ db' = r4.db
            /\ imp' = OutcomeOf(staff, Outcome("manager_import_view", sub, r4,
                                         200, r4.rejected))

\* views_import.download_rejected_view: the rejected rows kept in the session,
\* as a spreadsheet; no login check
download_rejected_view(staff) ==
    /\ UNCHANGED <<pages, norm, db>>
    /\ imp' = [OutcomeOf(staff, Outcome("download_rejected_view", NoImport.sub,
                                        Started, 200, imp.stored))
                 EXCEPT !.sent = imp.stored]

\* views.admin_import_view: staff only; one transaction.atomic around all
\* files inside try/except; the results collected before the failure are shown
admin_import_view(staff, method, sub) ==
    LET r1 == import_field(Started, "import_schools_excel", "boys", sub.schools_boys, "schools_boys")
        r2 == import_field(r1, "import_schools_excel", "girls", sub.schools_girls, "schools_girls")
        r3 == import_field(r2, "import_supervisors_excel", "", sub.supervisors, "supervisors")
        r4 == import_field(r3, "import_assignments_excel", "", sub.assignments, "assignments")
    IN
    /\ UNCHANGED <<pages, norm>>
    /\ IF ~staff
          THEN /\ UNCHANGED db
               /\ imp' = OutcomeOf(FALSE, Outcome("admin_import_view", NoImport.sub,
                                            Started, 302, imp.stored))
       ELSE IF method # "POST" \/ ~form_is_valid(sub)
          THEN /\ UNCHANGED db
               /\ imp' = Outcome("admin_import_view", NoImport.sub, Started, 200, imp.stored)
       ELSE IF r4.raised
          THEN /\ UNCHANGED db
               /\ imp' = Outcome("admin_import_view", sub, r4, 200, imp.stored)
       ELSE /\ db' = r4.db
            /\ imp' = Outcome("admin_import_view", sub, r4, 200, imp.stored)

\* views_manager.import_view: staff only; every importers function is a
\* transaction.atomic of its own, there is none around them and no handler
import_view(staff, method, sub) ==
    LET r1 == import_field(Started, "import_schools", "boys", sub.schools_boys, "schools_boys")
        r2 == import_field(r1, "import_schools", "girls", sub.schools_girls, "schools_girls")
        r3 == import_field(r2, "import_supervisors", "", sub.supervisors, "supervisors")
        r4 == import_field(r3, "import_assignments", "", sub.assignments, "assignments")
    IN
    /\ UNCHANGED <<pages, norm>>
    /\ IF ~staff
          THEN /\ UNCHANGED db
               /\ imp' = OutcomeOf(FALSE, Outcome("import_view", NoImport.sub,
                                            Started, 302, imp.stored))
       ELSE IF method # "POST" \/ ~form_is_valid(sub)
          THEN /\ UNCHANGED db
               /\ imp' = Outcome("import_view", NoImport.sub, Started, 200, imp.stored)
       ELSE IF r4.raised
          THEN /\ db' = r4.db
               /\ imp' = Outcome("import_view", sub, r4, 500, imp.stored)
       ELSE /\ db' = r4.db
            /\ imp' = Outcome("import_view", sub, r4, 200, imp.stored)

(* ------------------------------ state -------------------------------- *)
Init ==
    /\ supervisors = {sup \in DOMAIN SupervisorTable : SupervisorTable[sup].is_active}
    /\ session = NoSup
    /\ week_break \in [{1} -> BOOLEAN]
    /\ plans = <<>>
    /\ unlock = <<>>
    /\ req = Resp("init", "")
    /\ inflight = [w \in Workers |-> Idle]
    /\ norm = Unapplied(<<>>)
    /\ db = EmptyDb
    /\ imp = NoImport

(* --------------------------- login / logout -------------------------- *)
\* the credentials submitted: the national id as stored, with separators,
\* one digit short, with a non-ASCII digit; the four digits as stored, with a
\* separator, three digits only, four other digits
NidInputs ==
    {Nid1, <<" ">> \o SubSeq(Nid1, 1, 4) \o <<"-">> \o SubSeq(Nid1, 5, NID_LEN),
     SubSeq(Nid1, 1, NID_LEN - 1), [Nid1 EXCEPT ![4] = "ar3"], Nid2, Nid3}

Last4Inputs ==
    {<<"4", "5", "6", "7">>, <<"4", "5", " ", "6", "7">>, <<"5", "6", "7">>,
     <<"0", "0", "0", "0">>}

\* views._find_supervisor_by_nid (national_id is unique)
find_supervisor_by_nid(nid) ==
    LET n     == digits(nid)
        found == {sup \in supervisors : SupervisorTable[sup].national_id = n}
    IN  IF n = <<>> \/ found = {} THEN NoSup ELSE Min(found)

\* views._supervisor_last4 (<<>>: None)
supervisor_last4(sup) ==
    LET d == digits(SupervisorTable[sup].mobile)
    IN  IF Len(d) >= LAST4_LEN THEN LastChars(d, LAST4_LEN) ELSE <<>>

\* variant of the credential check that never compares the four digits
LoginAccepted_any_last4(nid, last4) ==
    /\ Len(digits(nid)) = NID_LEN
    /\ Len(digits(last4)) = LAST4_LEN
    /\ find_supervisor_by_nid(digits(nid)) # NoSup
    /\ supervisor_last4(find_supervisor_by_nid(digits(nid))) # <<>>

\* the credential check of login_view
LoginAccepted(nid, last4) ==
    /\ Len(digits(nid)) = NID_LEN
    /\ Len(digits(last4)) = LAST4_LEN
    /\ find_supervisor_by_nid(digits(nid)) # NoSup
    /\ supervisor_last4(find_supervisor_by_nid(digits(nid))) # <<>>
    /\ supervisor_last4(find_supervisor_by_nid(digits(nid))) = digits(last4)

login_view(method, nid, last4) ==
    /\ UNCHANGED <<supervisors, week_break, plans, unlock>>
    /\ UNCHANGED aside
    /\ IF method = "POST" /\ LoginAccepted(nid, last4)
          THEN /\ session' = find_supervisor_by_nid(digits(nid))
               /\ req' = [Resp("login_view", "logged_in") EXCEPT
                             !.cred = <<nid, last4>>]
       ELSE IF method = "POST"
          THEN /\ UNCHANGED session
               /\ req' = [Resp("login_view", "rejected") EXCEPT !.code = 200]
       ELSE /\ UNCHANGED session
            /\ req' = [Resp("login_view", "form") EXCEPT
                          !.method = "GET", !.code = 200]

logout_view ==
    /\ session' = NoSup
    /\ UNCHANGED <<supervisors, week_break, plans, unlock>>
    /\ UNCHANGED aside
    /\ req' = Resp("logout_view", "logged_out")

(* ------------------------- supervisor: plan page ---------------------- *)
\* One submitted weekday: the fields school_<wd> and visit_<wd>.
\* sid: NoSchool = empty field, a School id, or BadSid.
VisitInputs == {VISIT_IN, VISIT_REMOTE, VISIT_NONE}

\* The submitted schedules explored: the weekdays in `sub` carry school `s`,
\* the others are empty, and every weekday carries visit type `v`; with
\* bad = TRUE weekday BadDay carries a school id naming no School row.
MkForm(sub, s, v, bad) ==
    [wd \in WEEKDAYS |->
        [sid   |-> IF bad /\ wd = BadDay THEN BadSid
                   ELSE IF wd \in sub THEN s ELSE NoSchool,
         visit |-> v]]

FormSubsets ==
    {sub \in SUBSET WEEKDAYS :
        sub = {} \/ Cardinality(WEEKDAYS \ sub) <= MaxEmptyDays}

Forms ==
    {MkForm(sub, s, v, FALSE) : sub \in FormSubsets, s \in Schools, v \in VisitInputs}
    \cup {MkForm(sub, s, VISIT_IN, TRUE) : sub \in {{}, WEEKDAYS}, s \in Schools}

\* a GET carries no form fields
NoForm == MkForm({}, NoSchool, VISIT_IN, FALSE)

\* visit_<wd> as plan_view reads it: anything but "in"/"remote" becomes "in"
CleanVisit(v) == IF v \in {VISIT_IN, VISIT_REMOTE} THEN v ELSE VISIT_IN

\* One pass of the weekday loop of plan_view, from weekday wd on.  Each
\* statement is committed on its own (no transaction), so the rows written
\* before a failing update_or_create stay.  Result: the PlanDay rows, and
\* whether the loop ran to its end.
RECURSIVE ApplyDays(_, _, _)
ApplyDays(days, form, wd) ==
    IF wd \notin WEEKDAYS THEN [days |-> days, ok |-> TRUE]
    ELSE LET sid == form[wd].sid
             vtype == CleanVisit(form[wd].visit)
         IN  IF sid = NoSchool
                THEN ApplyDays(Drop(days, wd), form, wd + 1)
             ELSE IF sid \notin Schools
                THEN [days |-> days, ok |-> FALSE]
             ELSE ApplyDays(Put(days, wd, [school |-> sid, visit_type |-> vtype]),
                            form, wd + 1)

plan_view(method, weekIn, action, form) ==
    LET supervisor == require_supervisor
        week_no    == IF weekIn = 0 THEN get_default_week_no ELSE weekIn
        key        == <<supervisor, week_no>>
        \* "action" and the schedule are read only once the edit guard has
        \* let the POST through
        fieldsRead(outcome) == outcome \in {"error", "approved", "not_full", "saved"}
        resp(outcome, ok, code) ==
            [Resp("plan_view", outcome) EXCEPT
                !.method = method, !.week = week_no, !.ok = ok, !.code = code,
                !.action = IF fieldsRead(outcome) THEN action ELSE "",
                !.form = IF fieldsRead(outcome) THEN form ELSE <<>>]
    IN
    /\ UNCHANGED <<supervisors, session, week_break, unlock>>
    /\ UNCHANGED aside
    /\ IF supervisor = NoSup
          THEN UNCHANGED plans /\ Refused
       ELSE IF ~resolve_week(week_no)
          THEN /\ UNCHANGED plans
               /\ req' = resp("not_found", FALSE, 404)
       ELSE
       LET plans1 == IF key \in DOMAIN plans THEN plans ELSE Put(plans, key, NewPlan)
           plan   == plans1[key]
           r      == ApplyDays(plan.days, form, 0)
           saved  == [plan EXCEPT !.days = r.days, !.saved_at = Now(plan.saved_at)]
       IN
       IF method # "POST"
          THEN /\ plans' = plans1
               /\ req' = [resp("render", TRUE, 200) EXCEPT !.key = key]
       ELSE IF EditLocked(plan.status)
          THEN /\ plans' = plans1
               /\ req' = [resp("locked", TRUE, 302) EXCEPT !.key = key]
       ELSE IF ~r.ok
          THEN /\ plans' = Put(plans1, key, [plan EXCEPT !.days = r.days])
               /\ req' = [resp("error", FALSE, 500) EXCEPT !.key = key]
       ELSE IF action = "approve" /\ is_fully_filled(r.days)
          THEN /\ plans' = Put(plans1, key,
                               [saved EXCEPT !.status = STATUS_APPROVED,
                                             !.approved_at = Now(plan.approved_at)])
               /\ req' = [resp("approved", TRUE, 302) EXCEPT !.key = key]
       ELSE IF action = "approve"
          THEN /\ plans' = Put(plans1, key, saved)
               /\ req' = [resp("not_full", FALSE, 302) EXCEPT !.key = key]
       ELSE /\ plans' = Put(plans1, key, saved)
            /\ req' = [resp("saved", TRUE, 302) EXCEPT !.key = key]

(* ---------------- supervisor: plan page, statement by statement ------- *)
\* plan_view runs in no transaction: every ORM call is committed on its own,
\* and the calls of a POST handled by another worker may fall between two of
\* them.  A POST is handled in steps: plan_view_begin (login check, week
\* lookup, get_or_create, edit guard on the plan object just loaded), one
\* plan_view_day per weekday (update_or_create or delete), plan_view_finish
\* (is_fully_filled on the rows stored by then, plan.save with update_fields).
\* inflight[w] is Idle, or the POST worker w is handling (stage "loop", at
\* weekday wd), or the POST it handled last (stage "done").

\* the body of the weekday loop of plan_view for weekday wd
ApplyDay(days, form, wd) ==
    LET sid   == form[wd].sid
        vtype == CleanVisit(form[wd].visit)
    IN  IF sid = NoSchool
           THEN [days |-> Drop(days, wd), ok |-> TRUE]
        ELSE IF sid \notin Schools
           THEN [days |-> days, ok |-> FALSE]
        ELSE [days |-> Put(days, wd, [school |-> sid, visit_type |-> vtype]),
              ok |-> TRUE]

\* the response of a POST handled in steps
StepResp(job, outcome, ok, code) ==
    [Resp("plan_view", outcome) EXCEPT
        !.week = job.key[2], !.key = job.key, !.ok = ok, !.code = code,
        !.action = job.action, !.form = job.form]

plan_view_begin(w, week_no, action, form) ==
    LET supervisor == require_supervisor
        key    == <<supervisor, week_no>>
        plans1 == IF key \in DOMAIN plans THEN plans ELSE Put(plans, key, NewPlan)
    IN
    /\ inflight[w].stage # "loop"
    /\ inflight[w].posts < MaxPosts
    /\ supervisor # NoSup
    /\ resolve_week(week_no)
    /\ UNCHANGED <<supervisors, session, week_break, unlock>>
    /\ UNCHANGED apart
    /\ plans' = plans1
    /\ IF EditLocked(plans1[key].status)
          THEN /\ UNCHANGED inflight
               /\ req' = [Resp("plan_view", "locked") EXCEPT !.week = week_no, !.key = key]
          ELSE /\ inflight' = [inflight EXCEPT ![w] =
                                 [stage |-> "loop", posts |-> inflight[w].posts + 1,
                                  key |-> key, action |-> action,
                                  form |-> form, wd |-> Min(WEEKDAYS)]]
               /\ UNCHANGED req

plan_view_day(w) ==
    /\ inflight[w].stage = "loop"
    /\ inflight[w].wd \in WEEKDAYS
    /\ UNCHANGED <<supervisors, session, week_break, unlock>>
    /\ UNCHANGED apart
    /\ LET job == inflight[w]
           r   == ApplyDay(plans[job.key].days, job.form, job.wd)
       IN  IF r.ok
              THEN /\ plans' = [plans EXCEPT ![job.key].days = r.days]
                   /\ inflight' = [inflight EXCEPT ![w].wd = @ + 1]
                   /\ UNCHANGED req
              ELSE /\ UNCHANGED plans
                   /\ inflight' = [inflight EXCEPT ![w] =
                                     [stage |-> "done", posts |-> job.posts, key |-> job.key,
                                      action |-> job.action, form |-> job.form,
                                      ok |-> FALSE]]
                   /\ req' = StepResp(job, "error", FALSE, 500)

plan_view_finish(w) ==
    /\ inflight[w].stage = "loop"
    /\ inflight[w].wd \notin WEEKDAYS
    /\ UNCHANGED <<supervisors, session, week_break, unlock>>
    /\ UNCHANGED apart
    /\ LET job  == inflight[w]
           plan == plans[job.key]
       IN  /\ inflight' = [inflight EXCEPT ![w] =
                             [stage |-> "done", posts |-> job.posts, key |-> job.key,
                              action |-> job.action, form |-> job.form,
                              ok |-> TRUE]]
           /\ IF job.action = "approve" /\ is_fully_filled(plan.days)
                 THEN /\ plans' = [plans EXCEPT ![job.key].saved_at = Now(@),
                                                ![job.key].status = STATUS_APPROVED,
                                                ![job.key].approved_at = Now(@)]
                      /\ req' = StepResp(job, "approved", TRUE, 302)
              ELSE IF job.action = "approve"
                 THEN /\ plans' = [plans EXCEPT ![job.key].saved_at = Now(@)]
                      /\ req' = StepResp(job, "not_full", FALSE, 302)
              ELSE /\ plans' = [plans EXCEPT ![job.key].saved_at = Now(@)]
                   /\ req' = StepResp(job, "saved", TRUE, 302)

(* ----------------------- supervisor: unlock request ------------------- *)
\* UnlockRequest.objects.get_or_create defaults
NewUnlock == [status |-> UR_PENDING, resolved_at |-> NoStamp]

\* variant of the guard that lets any plan ask
MayRequestUnlock_any(status) == TRUE

\* the guard of request_unlock_view: only an approved plan may ask
MayRequestUnlock(status) == status = STATUS_APPROVED

\* the early return of request_unlock_view on a request found pending
AlreadyPending(created, ur_status) == ~created /\ ur_status = UR_PENDING

\* variant of the plan lookup that does not filter on the supervisor
OwnPlan_any_supervisor(plan_id, supervisor) == plan_id \in DOMAIN plans

\* get_object_or_404(Plan, id=plan_id, supervisor=supervisor)
OwnPlan(plan_id, supervisor) ==
    plan_id \in DOMAIN plans /\ plan_id[1] = supervisor

request_unlock_view(method, plan_id) ==
    LET supervisor == require_supervisor
        resp(outcome) == [Resp("request_unlock_view", outcome) EXCEPT !.key = plan_id]
    IN
    /\ UNCHANGED <<supervisors, session, week_break>>
    /\ UNCHANGED aside
    /\ IF method # "POST"
          THEN UNCHANGED <<plans, unlock>> /\ Refused
       ELSE IF supervisor = NoSup
          THEN UNCHANGED <<plans, unlock>> /\ Refused
       ELSE IF ~OwnPlan(plan_id, supervisor)
          THEN UNCHANGED <<plans, unlock>> /\ Refused
       ELSE IF ~MayRequestUnlock(plans[plan_id].status)
          THEN /\ UNCHANGED <<plans, unlock>>
               /\ req' = resp("not_approved")
       ELSE
       LET created == plan_id \notin DOMAIN unlock
           unlock1 == IF created THEN Put(unlock, plan_id, NewUnlock) ELSE unlock
       IN
       IF AlreadyPending(created, unlock1[plan_id].status)
          THEN /\ UNCHANGED plans
               /\ unlock' = unlock1
               /\ req' = resp("already_pending")
       ELSE /\ unlock' = Put(unlock1, plan_id,
                             [status |-> UR_PENDING, resolved_at |-> NoStamp])
            /\ plans' = [plans EXCEPT ![plan_id].status = STATUS_UNLOCK_REQUESTED]
            /\ req' = resp("requested")

(* ---------------------- manager: approve / back to draft --------------- *)
\* The manager views answer JSON on the AJAX path (status jsonCode) and a
\* redirect with a message otherwise.
ManagerResp(op, plan_id, outcome, ok, ajax, jsonCode) ==
    [Resp(op, outcome) EXCEPT !.key = plan_id, !.ok = ok, !.ajax = ajax,
                              !.code = IF ajax THEN jsonCode ELSE 302]

\* "filled": filled, "is_full": (filled == 5) of the JSON payload, which a
\* redirect does not carry
Payload(r, days) ==
    IF r.ajax
       THEN [r EXCEPT !.filled = plan_filled_count(days),
                      !.is_full = (plan_filled_count(days) = 5)]
       ELSE r

\* a row of admin_dashboard_view for a plan
admin_dashboard_row(days) ==
    [filled |-> plan_filled_count(days), is_full |-> (plan_filled_count(days) = 5)]

\* variant of the completeness guard that counts only days with a school
\* (what _plan_filled_count counts)
MayForceApprove_schools_only(days) == plan_filled_count(days) = Cardinality(WEEKDAYS)

\* the completeness guard of admin_plan_approve_view
MayForceApprove(days) == is_fully_filled(days)

admin_plan_approve_view(is_staff, method, plan_id, ajax) ==
    LET resp(outcome, ok, jsonCode) ==
            ManagerResp("admin_plan_approve_view", plan_id, outcome, ok, ajax, jsonCode)
    IN
    /\ UNCHANGED <<supervisors, session, week_break, unlock>>
    /\ UNCHANGED aside
    /\ IF ~is_staff
          THEN UNCHANGED plans /\ Refused
       ELSE IF method # "POST"
          THEN UNCHANGED plans /\ Refused
       ELSE IF plan_id \notin DOMAIN plans
          THEN UNCHANGED plans /\ Refused
       ELSE IF plans[plan_id].status = STATUS_APPROVED
          THEN /\ UNCHANGED plans
               /\ req' = Payload(resp("already_approved", TRUE, 200),
                                 plans[plan_id].days)
       ELSE IF ~MayForceApprove(plans[plan_id].days)
          THEN /\ UNCHANGED plans
               /\ req' = resp("not_full", FALSE, 400)
       ELSE /\ plans' = [plans EXCEPT ![plan_id].status = STATUS_APPROVED,
                                      ![plan_id].approved_at = Now(@)]
            /\ req' = Payload(resp("approved", TRUE, 200), plans[plan_id].days)

\* variant of the early return that is never taken
AlreadyDraft_never(status) == FALSE

\* the early return of admin_plan_back_to_draft_view
AlreadyDraft(status) == status = STATUS_DRAFT

\* variant of back-to-draft that keeps the plan's UnlockRequest
UnlockAfterBackToDraft_keep(plan_id) == unlock

\* the UnlockRequest rows admin_plan_back_to_draft_view leaves
UnlockAfterBackToDraft(plan_id) ==
    IF plan_id \in DOMAIN unlock THEN Drop(unlock, plan_id) ELSE unlock

admin_plan_back_to_draft_view(is_staff, method, plan_id, ajax) ==
    LET resp(outcome) ==
            ManagerResp("admin_plan_back_to_draft_view", plan_id, outcome, TRUE, ajax, 200)
    IN
    /\ UNCHANGED <<supervisors, session, week_break>>
    /\ UNCHANGED aside
    /\ IF ~is_staff
          THEN UNCHANGED <<plans, unlock>> /\ Refused
       ELSE IF method # "POST"
          THEN UNCHANGED <<plans, unlock>> /\ Refused
       ELSE IF plan_id \notin DOMAIN plans
          THEN UNCHANGED <<plans, unlock>> /\ Refused
       ELSE IF AlreadyDraft(plans[plan_id].status)
          THEN /\ UNCHANGED <<plans, unlock>>
               /\ req' = Payload(resp("already_draft"), plans[plan_id].days)
       ELSE /\ plans' = [plans EXCEPT ![plan_id].status = STATUS_DRAFT,
                                      ![plan_id].approved_at = NoStamp]
            /\ unlock' = UnlockAfterBackToDraft(plan_id)
            /\ req' = Payload(resp("to_draft"), plans[plan_id].days)

(* --------------------------- Django admin site ------------------------ *)
\* The plan status UnlockRequestAdmin.save_model gives the plan of a request
\* whose status changed to ur_status.
PlanStatusFor(ur_status) ==
    CASE ur_status = UR_PENDING  -> STATUS_UNLOCK_REQUESTED
      [] ur_status = UR_APPROVED -> STATUS_DRAFT
      [] ur_status = UR_REJECTED -> STATUS_APPROVED

\* variant of save_model that never stamps resolved_at
ResolvedAfter_unstamped(ur_status, resolved_at) ==
    IF ur_status = UR_PENDING THEN NoStamp ELSE resolved_at

\* resolved_at after save_model's branch for a changed status
ResolvedAfter(ur_status, resolved_at) ==
    IF ur_status = UR_PENDING THEN NoStamp
    ELSE IF resolved_at = NoStamp THEN Now(resolved_at)
    ELSE resolved_at

\* The admin form of an UnlockRequest: add (change = FALSE) for a plan that
\* has none, or change of the existing one; the form carries status and
\* resolved_at (empty or a date).
UnlockRequestAdmin_save_model(plan_id, change, status, resolved_in) ==
    /\ plan_id \in DOMAIN plans
    /\ change <=> plan_id \in DOMAIN unlock
    /\ UNCHANGED <<supervisors, session, week_break>>
    /\ UNCHANGED aside
    /\ LET old_status == IF change THEN unlock[plan_id].status ELSE "None"
           resp(outcome) ==
               [Resp("UnlockRequestAdmin_save_model", outcome) EXCEPT !.key = plan_id]
       IN
       IF old_status = status
          THEN /\ unlock' = Put(unlock, plan_id,
                                [status |-> status, resolved_at |-> resolved_in])
               /\ UNCHANGED plans
               /\ req' = resp("same_status")
       ELSE /\ unlock' = Put(unlock, plan_id,
                             [status |-> status,
                              resolved_at |-> ResolvedAfter(status, resolved_in)])
            /\ plans' = [plans EXCEPT ![plan_id].status = PlanStatusFor(status)]
            /\ req' = resp(IF change THEN "changed" ELSE "added")

\* PlanWeekAdmin (a plain ModelAdmin): week w is saved with is_break = b
PlanWeekAdmin_save(w, b) ==
    /\ week_break' = [week_break EXCEPT ![w] = b]
    /\ UNCHANGED <<supervisors, session, plans, unlock>>
    /\ UNCHANGED aside
    /\ req' = Resp("PlanWeekAdmin_save", "saved")

\* PlanDayAdmin / PlanDayInline (plain admin forms): the PlanDay of
\* (plan, weekday) is added or changed to a day without a school, marked
\* "none" (no visit) or left "in".
AdminWeekdays == {wd \in WEEKDAYS : wd < MaxAdminDays}

AdminDayInputs == {[school |-> NoSchool, visit_type |-> VISIT_NONE],
                   [school |-> NoSchool, visit_type |-> VISIT_IN]}

PlanDayAdmin_save(plan_id, wd, day) ==
    /\ plan_id \in DOMAIN plans
    /\ plans' = [plans EXCEPT ![plan_id].days = Put(@, wd, day)]
    /\ UNCHANGED <<supervisors, session, week_break, unlock>>
    /\ UNCHANGED aside
    /\ req' = [Resp("PlanDayAdmin_save", "saved") EXCEPT !.key = plan_id]

(* --------------------------- specifications --------------------------- *)
Methods    == {"GET", "POST"}
Actions    == {"save", "approve"}
WeekInputs == {0} \cup Weeks \cup {NoWeek}      \* 0: no "week" parameter
PlanIds    == DOMAIN plans \cup {NoKey}
UrStatuses == {UR_PENDING, UR_APPROVED, UR_REJECTED}
AdminDates == {NoStamp, Min(Stamps)}            \* resolved_at left empty, or a date

SupervisorNext ==
    \/ \E m \in Methods, nid \in NidInputs, l4 \in Last4Inputs : login_view(m, nid, l4)
    \/ logout_view
    \/ \E w \in WeekInputs : plan_view("GET", w, "save", NoForm)
    \/ \E w \in Weeks, a \in Actions, f \in Forms : plan_view("POST", w, a, f)
    \/ \E a \in Actions : plan_view("POST", NoWeek, a, NoForm)
    \/ \E m \in Methods, p \in PlanIds : request_unlock_view(m, p)

ManagerNext ==
    \/ \E st \in BOOLEAN, m \in Methods, p \in PlanIds, ajax \in BOOLEAN :
          admin_plan_approve_view(st, m, p, ajax)
    \/ \E st \in BOOLEAN, m \in Methods, p \in PlanIds, ajax \in BOOLEAN :
          admin_plan_back_to_draft_view(st, m, p, ajax)

UnlockAdminNext ==
    \E p \in DOMAIN plans, ch \in BOOLEAN, us \in UrStatuses, r \in AdminDates :
        UnlockRequestAdmin_save_model(p, ch, us, r)

WeekAdminNext == \E w \in Weeks, b \in BOOLEAN : PlanWeekAdmin_save(w, b)

DayAdminNext ==
    \E p \in DOMAIN plans, wd \in AdminWeekdays, d \in AdminDayInputs :
        PlanDayAdmin_save(p, wd, d)

\* the plan workflow: the supervisor pages, the manager pages and the
\* unlock-request admin
Next == SupervisorNext \/ ManagerNext \/ UnlockAdminNext

Spec == Init /\ [][Next]_vars

\* the supervisor and manager pages, with PlanDay rows also edited in the
\* admin site
NextAdmin == SupervisorNext \/ ManagerNext \/ DayAdminNext

SpecAdmin == Init /\ [][NextAdmin]_vars

\* the supervisor pages while weeks are marked and unmarked as breaks
NextWeek == SupervisorNext \/ WeekAdminNext

SpecWeek == Init /\ [][NextWeek]_vars

(* ------------------------------ properties ---------------------------- *)
\* A step is identified by the response it leaves in req': the view that
\* answered and the plan it answered about.  Unprimed variables are the rows
\* before the request, primed ones the rows after it.

\* every weekday 0..4 has a PlanDay with a school or marked "none"
AllDaysFilled(days) ==
    \A wd \in 0..4 :
        /\ wd \in DOMAIN days
        /\ (days[wd].school # NoSchool \/ days[wd].visit_type = "none")

\* the Plan row a request about plan k finds: the stored row, or the draft
\* row plan_view's get_or_create makes
PlanBefore(k) == IF k \in DOMAIN plans THEN plans[k] ELSE NewPlan

\* C1: a POST to plan_view by the owning supervisor on a plan whose status is
\* approved or unlock-requested changes nothing, whatever is submitted: no
\* PlanDay is created, updated or deleted, and status, saved_at and
\* approved_at of the plan stay as they were (no row of any plan or unlock
\* request changes).
C1_EditGuardChangesNothing ==
    [][(/\ req'.op = "plan_view"
        /\ req'.method = "POST"
        /\ req'.key \in DOMAIN plans
        /\ plans[req'.key].status \in {"approved", "unlock"})
       => (plans' = plans /\ unlock' = unlock)]_vars

\* a POST was turned away by the edit guard on an unlock-requested plan that
\* has PlanDay rows
C1_Witness ==
    /\ req.op = "plan_view"
    /\ req.method = "POST"
    /\ req.outcome = "locked"
    /\ plans[req.key].status = "unlock"
    /\ plans[req.key].days # <<>>

\* C2: a plan_view POST with action=approve on a draft plan makes the plan
\* approved, with approved_at set, if and only if the weekday loop ran to its
\* end and every weekday 0..4 then has a PlanDay with a school or marked
\* "none"; otherwise the plan stays draft and approved_at is unchanged.
C2_SupervisorApprove ==
    [][(/\ req'.op = "plan_view"
        /\ req'.method = "POST"
        /\ req'.action = "approve"
        /\ PlanBefore(req'.key).status = "draft")
       => LET old == PlanBefore(req'.key)
              new == plans'[req'.key]
          IN  IF req'.outcome # "error" /\ AllDaysFilled(new.days)
                 THEN new.status = "approved" /\ new.approved_at # NoStamp
                 ELSE new.status = "draft" /\ new.approved_at = old.approved_at]_vars

\* the supervisor's approve went through: the plan is approved, stamped, and
\* has all five days
C2_Witness ==
    /\ req.op = "plan_view"
    /\ req.action = "approve"
    /\ req.outcome = "approved"
    /\ plans[req.key].status = "approved"
    /\ plans[req.key].approved_at # NoStamp
    /\ DOMAIN plans[req.key].days = 0..4

\* C3: whatever the supervisor pages, the manager pages and the
\* unlock-request admin have done, a plan whose status is approved or
\* unlock-requested is fully filled.
C3_LockedPlansAreFilled ==
    \A k \in DOMAIN plans :
        plans[k].status \in {"approved", "unlock"} => AllDaysFilled(plans[k].days)

\* C4: request_unlock_view by the owning supervisor on an approved plan
\* always leaves the plan unlock-requested and its UnlockRequest pending with
\* resolved_at empty, whether the request row is new or reused in any status.
C4_RequestUnlockEndsPending ==
    [][(/\ req'.op = "request_unlock_view"
        /\ req'.key \in DOMAIN plans
        /\ plans[req'.key].status = "approved")
       => (/\ plans'[req'.key].status = "unlock"
           /\ req'.key \in DOMAIN unlock'
           /\ unlock'[req'.key].status = "pending"
           /\ unlock'[req'.key].resolved_at = NoStamp)]_vars

\* C5: request_unlock_view on a plan that is not approved (draft or
\* unlock-requested) changes nothing: the plan's status is unchanged, no
\* UnlockRequest is created, and an existing one keeps status and resolved_at.
C5_RequestUnlockRefused ==
    [][(/\ req'.op = "request_unlock_view"
        /\ req'.key \in DOMAIN plans
        /\ plans[req'.key].status # "approved")
       => (plans' = plans /\ unlock' = unlock)]_vars

\* an unlock request was refused on a draft plan that still carries the
\* resolved UnlockRequest of an earlier cycle
C5_Witness ==
    /\ req.op = "request_unlock_view"
    /\ req.outcome = "not_approved"
    /\ plans[req.key].status = "draft"
    /\ req.key \in DOMAIN unlock
    /\ unlock[req.key].status = "approved"
    /\ unlock[req.key].resolved_at # NoStamp

\* C6: when the admin resolves the pending UnlockRequest of an
\* unlock-requested plan, setting it to approved puts the plan in draft,
\* setting it to rejected puts the plan in approved, and either way the
\* request's resolved_at is non-empty afterwards.
C6_AdminResolvesUnlock ==
    [][(/\ req'.op = "UnlockRequestAdmin_save_model"
        /\ req'.key \in DOMAIN unlock
        /\ unlock[req'.key].status = "pending"
        /\ plans[req'.key].status = "unlock"
        /\ unlock'[req'.key].status \in {"approved", "rejected"})
       => (/\ unlock'[req'.key].status = "approved" => plans'[req'.key].status = "draft"
           /\ unlock'[req'.key].status = "rejected" => plans'[req'.key].status = "approved"
           /\ unlock'[req'.key].resolved_at # NoStamp)]_vars

\* the admin rejected a request: the plan is approved again and the request
\* carries its resolution date
C6_Witness ==
    /\ req.op = "UnlockRequestAdmin_save_model"
    /\ req.outcome = "changed"
    /\ unlock[req.key].status = "rejected"
    /\ unlock[req.key].resolved_at # NoStamp
    /\ plans[req.key].status = "approved"
    /\ AllDaysFilled(plans[req.key].days)

\* C7: admin_plan_back_to_draft_view on an approved or unlock-requested plan
\* ends with the plan in draft, approved_at cleared and no UnlockRequest for
\* the plan; the plan's PlanDay rows are unchanged.
C7_BackToDraft ==
    [][(/\ req'.op = "admin_plan_back_to_draft_view"
        /\ req'.key \in DOMAIN plans
        /\ plans[req'.key].status \in {"approved", "unlock"})
       => (/\ plans'[req'.key].status = "draft"
           /\ plans'[req'.key].approved_at = NoStamp
           /\ req'.key \notin DOMAIN unlock'
           /\ plans'[req'.key].days = plans[req'.key].days)]_vars

\* a plan with all its days was sent back to draft
C7_Witness ==
    /\ req.op = "admin_plan_back_to_draft_view"
    /\ req.outcome = "to_draft"
    /\ plans[req.key].status = "draft"
    /\ plans[req.key].approved_at = NoStamp
    /\ req.key \notin DOMAIN unlock
    /\ AllDaysFilled(plans[req.key].days)

\* C8: admin_plan_back_to_draft_view on a plan that is already draft is a
\* no-op: status, approved_at, saved_at, the PlanDay rows and any
\* UnlockRequest of the plan stay as they were; and since the view always
\* leaves the plan in draft, applying it twice gives what applying it once
\* gives.
C8_BackToDraftIdempotent ==
    [][(/\ req'.op = "admin_plan_back_to_draft_view"
        /\ req'.key \in DOMAIN plans)
       => (/\ plans'[req'.key].status = "draft"
           /\ plans[req'.key].status = "draft"
                => (plans' = plans /\ unlock' = unlock))]_vars

\* back-to-draft answered "already draft" for a plan that still has an
\* approval date and an UnlockRequest: rows the other branch would have
\* cleared
C8_Witness ==
    /\ req.op = "admin_plan_back_to_draft_view"
    /\ req.outcome = "already_draft"
    /\ plans[req.key].status = "draft"
    /\ plans[req.key].approved_at # NoStamp
    /\ req.key \in DOMAIN unlock

\* C9: admin_plan_approve_view on a plan that is not approved sets status
\* approved and approved_at if and only if the plan is fully filled; when it
\* is not, status and approved_at are unchanged and the response reports
\* failure: ok is false, and the AJAX answer has HTTP status 400.
C9_ManagerApprove ==
    [][(/\ req'.op = "admin_plan_approve_view"
        /\ req'.key \in DOMAIN plans
        /\ plans[req'.key].status # "approved")
       => IF AllDaysFilled(plans[req'.key].days)
             THEN /\ plans'[req'.key].status = "approved"
                  /\ plans'[req'.key].approved_at # NoStamp
                  /\ req'.ok
             ELSE /\ plans'[req'.key].status = plans[req'.key].status
                  /\ plans'[req'.key].approved_at = plans[req'.key].approved_at
                  /\ ~req'.ok
                  /\ req'.ajax => req'.code = 400]_vars

\* the manager approved a plan one of whose days is a no-visit day without a
\* school
C9_Witness ==
    /\ req.op = "admin_plan_approve_view"
    /\ req.outcome = "approved"
    /\ plans[req.key].status = "approved"
    /\ \E wd \in DOMAIN plans[req.key].days :
          /\ plans[req.key].days[wd].school = NoSchool
          /\ plans[req.key].days[wd].visit_type = "none"

\* C10: plan_view, GET or POST, asked for the week number of a PlanWeek
\* marked as a break answers not-found, creates no Plan for that week and
\* changes no PlanDay or plan field, also when a Plan for the week exists.
C10_BreakWeekNotFound ==
    [][(/\ req'.op = "plan_view"
        /\ req'.week \in DOMAIN week_break
        /\ week_break[req'.week])
       => (/\ req'.outcome = "not_found"
           /\ req'.code = 404
           /\ plans' = plans
           /\ unlock' = unlock)]_vars

\* a POST for a break week was answered not-found while the supervisor has a
\* plan with PlanDay rows for that week
C10_Witness ==
    /\ req.op = "plan_view"
    /\ req.method = "POST"
    /\ req.outcome = "not_found"
    /\ req.week \in DOMAIN week_break
    /\ week_break[req.week]
    /\ <<session, req.week>> \in DOMAIN plans
    /\ plans[<<session, req.week>>].days # <<>>

\* C11: after a plan_view save on a draft plan the stored day records match
\* the submission for every weekday 0..4: a weekday submitted with a school
\* has a PlanDay with that school and the submitted visit type; one submitted
\* with visit type "none" and no school has a PlanDay with visit_type "none";
\* one submitted with neither has no PlanDay; the status stays draft and
\* saved_at is updated.
C11_SaveStoresSubmission ==
    [][(/\ req'.op = "plan_view"
        /\ req'.method = "POST"
        /\ req'.action = "save"
        /\ req'.outcome = "saved")
       => LET f   == req'.form
              old == PlanBefore(req'.key)
              new == plans'[req'.key]
          IN  /\ \A wd \in 0..4 :
                    IF f[wd].sid # NoSchool
                       THEN /\ wd \in DOMAIN new.days
                            /\ new.days[wd].school = f[wd].sid
                            /\ new.days[wd].visit_type = f[wd].visit
                    ELSE IF f[wd].visit = "none"
                       THEN /\ wd \in DOMAIN new.days
                            /\ new.days[wd].visit_type = "none"
                    ELSE wd \notin DOMAIN new.days
              /\ new.status = "draft"
              /\ new.saved_at # NoStamp
              /\ new.saved_at # old.saved_at]_vars

\* the credentials cred = <<national id, four digits>> are those of the
\* active Supervisor row sup
CredentialsOf(cred, sup) ==
    /\ Len(digits(cred[1])) = 10
    /\ sup \in DOMAIN SupervisorTable
    /\ SupervisorTable[sup].is_active
    /\ SupervisorTable[sup].national_id = digits(cred[1])
    /\ Len(digits(SupervisorTable[sup].mobile)) >= 4
    /\ digits(cred[2]) = LastChars(digits(SupervisorTable[sup].mobile), 4)

\* C13: login_view stores a supervisor's id in the session only when the
\* submitted national id normalises to exactly 10 digits, an active Supervisor
\* has that national_id and the submitted four digits equal the last four
\* digits of that supervisor's stored mobile; in every other case login_view
\* leaves the session's supervisor id as it was.
C13_LoginStoresSupervisor ==
    [][/\ (req'.op = "login_view" /\ req'.outcome = "logged_in")
            => CredentialsOf(req'.cred, session')
       /\ (req'.op = "login_view" /\ req'.outcome # "logged_in")
            => session' = session
       /\ (session' # session /\ session' # NoSup)
            => (req'.op = "login_view" /\ req'.outcome = "logged_in")]_vars

\* a login with credentials typed with separators was accepted
C13_Witness ==
    /\ req.op = "login_view" /\ req.outcome = "logged_in"
    /\ session = 1
    /\ req.cred[1] # SupervisorTable[1].national_id
    /\ req.cred[2] # <<"4", "5", "6", "7">>

\* the complete schedule a submission asks for
ScheduleOf(form) ==
    [wd \in {d \in WEEKDAYS : form[d].sid # NoSchool} |->
        [school |-> form[wd].sid, visit_type |-> form[wd].visit]]

\* C12: when two plan_view saves of the same draft plan were handled
\* interleaved, the stored schedule is the complete schedule of one of the two
\* submissions, never a mixture of both.
C12_NoMixedSchedule ==
    \A w1, w2 \in Workers :
        (/\ w1 # w2
         /\ inflight[w1].stage = "done" /\ inflight[w2].stage = "done"
         /\ inflight[w1].ok /\ inflight[w2].ok
         /\ inflight[w1].action = "save" /\ inflight[w2].action = "save"
         /\ inflight[w1].key = inflight[w2].key)
        => plans[inflight[w1].key].days
              \in {ScheduleOf(inflight[w1].form), ScheduleOf(inflight[w2].form)}

\* the plan page with its POSTs handled by several workers at once
\* (the schedules submitted: every weekday or none carries a school, visit
\* type in or remote, and the one with an unknown school id)
RaceForms ==
    {MkForm(sub, s, v, FALSE) :
        sub \in {{}, WEEKDAYS}, s \in Schools, v \in {VISIT_IN, VISIT_REMOTE}}
    \cup {MkForm(WEEKDAYS, s, VISIT_IN, TRUE) : s \in Schools}

RaceNext ==
    \/ \E m \in Methods, nid \in NidInputs, l4 \in Last4Inputs : login_view(m, nid, l4)
    \/ \E w \in Workers, wk \in Weeks, a \in Actions, f \in RaceForms :
          plan_view_begin(w, wk, a, f)
    \/ \E w \in Workers : plan_view_day(w)
    \/ \E w \in Workers : plan_view_finish(w)

SpecRace == Init /\ [][RaceNext]_vars

(* --------------------------- the import pages ------------------------- *)
\* The sheets uploaded.  School code "7", names "A" and "B"; national ids
\* Nid1, Nid2 and one of five digits; an assignments sheet with an "is_active"
\* column, empty in two rows and holding 0 in one.
ShortNid == SubSeq(Nid1, 1, 5)

SchoolRow(code, name, active) == [stat_code |-> code, name |-> name, is_active |-> active]
SupervisorRow(nid, name) == [national_id |-> nid, full_name |-> name]
AssignmentRow(nid, code, active) ==
    [supervisor_national_id |-> nid, school_stat_code |-> code, is_active |-> active]

SchoolFilesBoys  == {Sheet(<<SchoolRow(<<"7">>, "A", "absent")>>)}
SchoolFilesGirls == {Sheet(<<SchoolRow(<<"7">>, "B", "0"), SchoolRow(<<"7">>, "", "absent")>>)}

SupervisorFiles ==
    {Sheet(<<SupervisorRow(Nid1, "A")>>),
     Sheet(<<SupervisorRow(Nid1, ""), SupervisorRow(ShortNid, "A")>>)}

AssignmentFiles ==
    {Corrupt,
     Sheet(<<AssignmentRow(Nid1, <<"7">>, "absent")>>),
     Sheet(<<AssignmentRow(Nid2, <<"7">>, ""), AssignmentRow(Nid2, <<>>, ""),
             AssignmentRow(Nid1, <<"7">>, "0")>>)}

\* the submissions: at most MaxFiles files at once
Uploads ==
    {u \in {Upload(b, g, s, a) :
                b \in SchoolFilesBoys \cup {Absent},
                g \in SchoolFilesGirls \cup {Absent},
                s \in SupervisorFiles \cup {Absent},
                a \in AssignmentFiles \cup {Absent}} :
        Cardinality({f \in DOMAIN u : u[f].state # "absent"}) <= MaxFiles}

\* (a GET and a request of a user who is not staff carry no files: neither
\* view reads them then)
ImportNext ==
    \/ \E u \in Uploads : manager_import_view(TRUE, "POST", u)
    \/ manager_import_view(TRUE, "GET", NoImport.sub)
    \/ \E u \in Uploads : admin_import_view(TRUE, "POST", u)
    \/ admin_import_view(TRUE, "GET", NoImport.sub)
    \/ admin_import_view(FALSE, "POST", NoImport.sub)
    \/ \E u \in Uploads : import_view(TRUE, "POST", u)
    \/ import_view(TRUE, "GET", NoImport.sub)
    \/ import_view(FALSE, "POST", NoImport.sub)

\* (the import pages neither read nor write the plan weeks: one calendar, with
\* no break week, is enough)
InitImport == Init /\ \A w \in Weeks : ~week_break[w]

SpecImport == InitImport /\ [][ImportNext]_vars

\* the files of a submission that were uploaded
Uploaded(sub) == {f \in DOMAIN sub : sub[f].state # "absent"}

\* the upload field's gender
GenderOf(field) == IF field = "schools_boys" THEN "boys" ELSE "girls"

\* C14: a schools sheet row with a non-empty stat_code and name, imported
\* through manager_import_view, creates a School with that stat_code, the
\* gender of the upload field and is_active = true when no School has the
\* code, and updates the name of the School that has it, creating no second.
C14_SchoolsRowImported ==
    [][(/\ imp'.entry = "manager_import_view"
        /\ Cardinality(Uploaded(imp'.sub)) = 1)
       => \A f \in Uploaded(imp'.sub) \cap {"schools_boys", "schools_girls"} :
            \A i \in 1..Len(imp'.sub[f].rows) :
              LET r    == imp'.sub[f].rows[i]
                  code == import_code(r.stat_code)
              IN  (code # <<>> /\ r.name # "")
                  => /\ code \in DOMAIN db'.schools
                     /\ db'.schools[code].name = r.name
                     /\ code \notin DOMAIN db.schools
                          => /\ db'.schools[code].gender = GenderOf(f)
                             /\ db'.schools[code].is_active]_vars

\* the assignments sheet of the submission handled last was imported by
\* views_import._import_assignments or importers.import_assignments
AssignmentsImported(o) ==
    /\ o.entry \in {"manager_import_view", "import_view"}
    /\ "assignments" \in DOMAIN o.results

\* the supervisor id an assignments row names, as its importer reads it
SupervisorIdOf(o, r) ==
    IF o.entry = "manager_import_view"
       THEN import_digits(r.supervisor_national_id)
       ELSE importers_digits(r.supervisor_national_id)

\* the row r of the assignments sheet was rejected, once, for naming the
\* unknown supervisor id, and no Assignment of that id is stored
RejectedUnknownSupervisor(o, r, tables) ==
    /\ Cardinality({i \in 1..Len(o.rejected) : o.rejected[i].row = r}) = 1
    /\ \A i \in 1..Len(o.rejected) :
          o.rejected[i].row = r
          => /\ o.rejected[i].reason.text = "no_supervisor"
             /\ o.rejected[i].reason.id = SupervisorIdOf(o, r)
    /\ o.results["assignments"].skipped >= 1
    /\ \A k \in DOMAIN tables.assignments : k[1] # SupervisorIdOf(o, r)

\* C15 as stated: an assignments sheet row whose supervisor national id matches
\* no Supervisor is rejected: the skip counter is incremented, the recorded
\* reason contains the attempted id, no Assignment is created or changed.
C15_UnknownSupervisorRejected ==
    [][AssignmentsImported(imp')
       => \A i \in 1..Len(imp'.sub.assignments.rows) :
            LET r == imp'.sub.assignments.rows[i]
            IN  SupervisorIdOf(imp', r) \notin DOMAIN db.supervisors
                => /\ RejectedUnknownSupervisor(imp', r, db')
                   /\ db'.assignments = db.assignments]_vars

\* C15 amended: the same for a row that carries a supervisor id and a school
\* code (a row lacking either is rejected for the missing value, with a reason
\* that names no id).
C15_UnknownSupervisorRejectedWithCode ==
    [][AssignmentsImported(imp')
       => \A i \in 1..Len(imp'.sub.assignments.rows) :
            LET r == imp'.sub.assignments.rows[i]
            IN  (/\ SupervisorIdOf(imp', r) \notin DOMAIN db.supervisors
                 /\ SupervisorIdOf(imp', r) # <<>>
                 /\ strip(r.school_stat_code) # <<>>)
                => /\ RejectedUnknownSupervisor(imp', r, db')
                   /\ \A k \in DOMAIN db.assignments \cup DOMAIN db'.assignments :
                         k[1] # SupervisorIdOf(imp', r)]_vars

\* an assignments row naming an unknown supervisor was rejected by each importer
C15_Witness ==
    /\ AssignmentsImported(imp)
    /\ imp.entry = "manager_import_view"
    /\ \E i \in 1..Len(imp.rejected) :
          /\ imp.rejected[i].reason.text = "no_supervisor"
          /\ imp.rejected[i].reason.id = Nid2
    /\ db.supervisors # <<>>

\* C16: when an exception is raised while an import entry point processes a
\* file of a submission, none of the writes made earlier in that submission
\* stay stored, those of the files processed before the failing one included.
C16_ImportAllOrNothing ==
    [][(/\ imp'.entry \in {"manager_import_view", "admin_import_view", "import_view"}
        /\ imp'.raised)
       => db' = db]_vars

\* the importer name _rej_add is given for the rows of an upload field
ImporterOf(field) ==
    IF field \in {"schools_boys", "schools_girls"} THEN "schools" ELSE field

\* the row r of upload field f fails a required-field or lookup check of the
\* import page, the tables being `tables`
FailsCheck(f, r, tables) ==
    IF ImporterOf(f) = "schools"
       THEN import_code(r.stat_code) = <<>> \/ r.name = ""
    ELSE IF f = "supervisors"
       THEN import_digits(r.national_id) = <<>> \/ r.full_name = ""
    ELSE \/ import_digits(r.supervisor_national_id) = <<>>
         \/ import_code(r.school_stat_code) = <<>>
         \/ import_digits(r.supervisor_national_id) \notin DOMAIN tables.supervisors
         \/ import_code(r.school_stat_code) \notin DOMAIN tables.schools

RECURSIVE SumSkipped(_, _)
SumSkipped(results, labels) ==
    IF labels = {} THEN 0
    ELSE LET l == CHOOSE x \in labels : TRUE
         IN  results[l].skipped + SumSkipped(results, labels \ {l})

\* the import page handled a submission to its end
PageCompleted(o) ==
    /\ o.entry = "manager_import_view"
    /\ ~o.raised
    /\ o.results # <<>>

\* C17: on the import page every row that fails a required-field or lookup
\* check produces exactly one rejected entry, with the row's columns, a
\* non-empty reason and the importer name; the rejected entries are as many as
\* the skipped counters of the processed files add up to, and no accepted row
\* is among them.
C17_RejectedRowsTracked ==
    [][PageCompleted(imp')
       => /\ \A f \in Uploaded(imp'.sub) :
               \A i \in 1..Len(imp'.sub[f].rows) :
                 LET r == imp'.sub[f].rows[i]
                     n == Cardinality({j \in 1..Len(imp'.rejected) :
                                          /\ imp'.rejected[j].row = r
                                          /\ imp'.rejected[j].importer = ImporterOf(f)
                                          /\ imp'.rejected[j].reason.text # ""})
                 IN  n = IF FailsCheck(f, r, db) THEN 1 ELSE 0
          /\ Len(imp'.rejected) = SumSkipped(imp'.results, DOMAIN imp'.results)
          /\ imp'.stored = imp'.rejected]_vars

\* the import page accepted a row and rejected rows of two importers
C17_Witness ==
    /\ PageCompleted(imp)
    /\ \E l \in DOMAIN imp.results : imp.results[l].updated >= 1
    /\ \E i, j \in 1..Len(imp.rejected) :
          imp.rejected[i].importer # imp.rejected[j].importer

\* the national id a supervisors row carries, as the entry point's importer
\* normalises it
NationalIdOf(o, r) ==
    IF o.entry = "manager_import_view" THEN import_digits(r.national_id)
    ELSE IF o.entry = "import_view" THEN importers_digits(r.national_id)
    ELSE digits(strip(r.national_id))

\* C20: every Supervisor created or updated by a supervisors import has a
\* national_id of exactly 10 digits; a row whose national id does not
\* normalise to exactly 10 digits, or whose name is empty, is rejected and
\* creates or changes no Supervisor.
C20_SupervisorsTenDigits ==
    [][(/\ imp'.entry \in {"manager_import_view", "admin_import_view", "import_view"}
        /\ Uploaded(imp'.sub) = {"supervisors"})
       => LET rows == imp'.sub.supervisors.rows
              bad  == {i \in 1..Len(rows) :
                          \/ Len(NationalIdOf(imp', rows[i])) # 10
                          \/ rows[i].full_name = ""}
          IN  /\ \A k \in DOMAIN db'.supervisors :
                    (k \notin DOMAIN db.supervisors \/ db'.supervisors[k] # db.supervisors[k])
                    => Len(k) = 10
              /\ bad # {}
                    => /\ "supervisors" \in DOMAIN imp'.results
                       /\ imp'.results["supervisors"].skipped = Cardinality(bad)]_vars

(* ------------------ the cell normalisers on their own ----------------- *)
InitNorm ==
    /\ supervisors = {sup \in DOMAIN SupervisorTable : SupervisorTable[sup].is_active}
    /\ session = NoSup
    /\ week_break \in [{1} -> BOOLEAN]
    /\ plans = <<>>
    /\ unlock = <<>>
    /\ req = Resp("init", "")
    /\ inflight = [w \in Workers |-> Idle]
    /\ norm \in {Unapplied(v) : v \in Cells}
    /\ db = EmptyDb
    /\ imp = NoImport

apply_import_digits ==
    /\ norm' = [norm EXCEPT !.fn = "views_import._digits", !.out = import_digits(norm.cell)]
    /\ UNCHANGED <<pages, db, imp>>

apply_importers_digits ==
    /\ norm' = [norm EXCEPT !.fn = "importers._digits", !.out = importers_digits(norm.cell)]
    /\ UNCHANGED <<pages, db, imp>>

apply_import_code ==
    /\ norm' = [norm EXCEPT !.fn = "views_import._code", !.out = import_code(norm.cell)]
    /\ UNCHANGED <<pages, db, imp>>

apply_importers_code ==
    /\ norm' = [norm EXCEPT !.fn = "importers._code", !.out = importers_code(norm.cell)]
    /\ UNCHANGED <<pages, db, imp>>

NormNext ==
    \/ apply_import_digits
    \/ apply_importers_digits
    \/ apply_import_code
    \/ apply_importers_code

SpecNorm == InitNorm /\ [][NormNext]_vars

\* the ASCII digits of a cell, in order, once a trailing ".0" is dropped
AsciiDigit(ch) == ch \in AsciiDigits

DigitsOf(v) ==
    LET s == strip(v)
        t == IF Len(s) >= 2 /\ SubSeq(s, Len(s) - 1, Len(s)) = <<".", "0">>
                THEN SubSeq(s, 1, Len(s) - 2) ELSE s
    IN  SelectSeq(t, AsciiDigit)

\* C19: the digit normaliser of the imports (_digits of views_import and of
\* importers) returns the ASCII digits of its input, in order, once a trailing
\* ".0" is dropped: no other digit is removed, no non-ASCII digit survives.
C19_DigitsNormaliser ==
    norm.fn \in {"views_import._digits", "importers._digits"}
        => norm.out = DigitsOf(norm.cell)

\* C18: a School.stat_code produced by the imports' code normaliser is
\* upper-cased alphanumeric with the separators stripped ("70308-1" gives
\* "703081", "M3964353" stays), by views_import._code as by importers._code.
C18_CodeNormaliser ==
    norm.fn \in {"views_import._code", "importers._code"}
        => \A i \in 1..Len(norm.out) : norm.out[i] \in AsciiDigits \cup {"M"}

(* ------------------------- C21 .. C30 ------------------------------- *)
\* the (supervisor, school) pair an assignments row names, as the importer of
\* the submission handled last resolves it against the tables
PairOf(o, r, tables) ==
    CASE o.entry = "manager_import_view"
           -> <<import_digits(r.supervisor_national_id), import_code(r.school_stat_code)>>
      [] o.entry = "import_view"
           -> <<importers_digits(r.supervisor_national_id), importers_code(r.school_stat_code)>>
      [] OTHER
           -> <<digits(strip(r.supervisor_national_id)),
                IF strip(r.school_stat_code) \in DOMAIN tables.schools
                   THEN strip(r.school_stat_code)
                   ELSE digits(strip(r.school_stat_code))>>

\* C21: importing an assignments row for a (supervisor, school) pair whose
\* Assignment exists with is_active = false leaves the Assignment of that pair
\* (the table holds one per pair) active afterwards.
C21_AssignmentReactivated ==
    [][(/\ "assignments" \in DOMAIN imp'.results
        /\ ~imp'.raised)
       => \A i \in 1..Len(imp'.sub.assignments.rows) :
            LET k == PairOf(imp', imp'.sub.assignments.rows[i], db)
            IN  (k \in DOMAIN db.assignments /\ ~db.assignments[k].is_active)
                => /\ k \in DOMAIN db'.assignments
                   /\ db'.assignments[k].is_active]_vars

\* C22: a failure raised while manager_import_view processes a submission is
\* caught by the view: the request ends with a normal response (no error
\* status reaches the caller) and the tables are as before the request.
C22_ImportFailureCaught ==
    [][(imp'.entry = "manager_import_view" /\ imp'.raised)
       => /\ imp'.code = 200
          /\ db' = db]_vars

\* C23: a plan_view POST is all-or-nothing: when handling stops partway
\* through the weekdays (a submitted school id that cannot be stored), none of
\* the PlanDay changes made for the earlier weekdays persist, and the plan's
\* saved_at and status are unchanged.
C23_PlanPostAllOrNothing ==
    [][(/\ req'.op = "plan_view"
        /\ req'.method = "POST"
        /\ req'.outcome = "error")
       => LET old == PlanBefore(req'.key)
              new == plans'[req'.key]
          IN  /\ new.days = old.days
              /\ new.saved_at = old.saved_at
              /\ new.status = old.status]_vars

\* The supervisor pages used from the sessions of two supervisors: logins of
\* supervisor 1 and supervisor 4 (and one with the other's four digits), then
\* the plan page and unlock requests naming any stored plan.
IsolationLogins ==
    {<<Nid1, LastChars(digits(Mobile1), LAST4_LEN)>>,
     <<Nid4, LastChars(digits(Mobile4), LAST4_LEN)>>,
     <<Nid4, LastChars(digits(Mobile1), LAST4_LEN)>>}

IsolationNext ==
    \/ \E c \in IsolationLogins : login_view("POST", c[1], c[2])
    \/ logout_view
    \/ \E w \in Weeks : plan_view("GET", w, "save", NoForm)
    \/ \E w \in Weeks, a \in Actions, f \in RaceForms : plan_view("POST", w, a, f)
    \/ \E m \in Methods, p \in PlanIds : request_unlock_view(m, p)

SpecIsolation == Init /\ [][IsolationNext]_vars

\* the rows (of Plan with its PlanDay rows, or of UnlockRequest) that belong to
\* a supervisor other than sup
RowsOfOthers(rows, sup) ==
    [k \in {k \in DOMAIN rows : k[1] # sup} |-> rows[k]]

\* C24: no request made in supervisor A's session (plan_view GET or POST for
\* any week, request_unlock_view with any submitted plan id) creates, changes
\* or deletes a Plan, PlanDay or UnlockRequest of another supervisor.
C24_SupervisorIsolation ==
    [][req'.op \in {"plan_view", "request_unlock_view", "refused"}
       => /\ RowsOfOthers(plans', session) = RowsOfOthers(plans, session)
          /\ RowsOfOthers(unlock', session) = RowsOfOthers(unlock, session)]_vars

\* supervisor 1 had an unlock request accepted while supervisor 4 has an
\* approved plan
C24_Witness ==
    /\ session = 1
    /\ req.op = "request_unlock_view"
    /\ req.outcome = "requested"
    /\ \E k \in DOMAIN plans : k[1] = 4 /\ plans[k].status = STATUS_APPROVED

\* C25: the edit guard holds under interleaving: once a plan's status is
\* approved or unlock-requested no step of a supervisor plan_view POST creates,
\* changes or deletes a PlanDay of it, a save overlapping an approve of the
\* same plan included.
C25_EditGuardUnderInterleaving ==
    [][\A k \in DOMAIN plans :
          EditLocked(plans[k].status) => plans'[k].days = plans[k].days]_vars

\* The School rows are all active; the Assignment rows: school 1 is assigned
\* to supervisor 1 and to no other supervisor.
SchoolTable == [s \in Schools |-> [is_active |-> TRUE]]

AssignmentTable == {[supervisor |-> 1, school |-> 1, is_active |-> TRUE]}

\* the queryset "schools" of plan_view: the active schools with an active
\* Assignment to the supervisor (handed to the template only)
plan_view_schools(supervisor) ==
    {s \in Schools :
        /\ SchoolTable[s].is_active
        /\ \E a \in AssignmentTable :
              a.supervisor = supervisor /\ a.school = s /\ a.is_active}

\* C26: after a plan_view save or approve every PlanDay of the plan references
\* a school that is active and has an active Assignment to the plan's
\* supervisor (a submitted school id outside them is not stored).
C26_OnlyAssignedSchoolsStored ==
    [][(/\ req'.op = "plan_view"
        /\ req'.method = "POST"
        /\ req'.outcome \in {"saved", "approved", "not_full"})
       => \A wd \in DOMAIN plans'[req'.key].days :
             plans'[req'.key].days[wd].school
                \in plan_view_schools(req'.key[1]) \cup {NoSchool}]_vars

\* C27: in every state reachable by supervisor save/approve, request-unlock,
\* manager approve, manager back-to-draft and admin unlock-request
\* resolution, a plan's status is unlock-requested if and only if the plan has
\* an UnlockRequest whose status is pending.
C27_UnlockRequestedIffPending ==
    \A k \in DOMAIN plans :
        plans[k].status = STATUS_UNLOCK_REQUESTED
        <=> (k \in DOMAIN unlock /\ unlock[k].status = UR_PENDING)

\* C28: in every reachable state a plan's approved_at is set if and only if
\* its status is approved or unlock-requested (a draft plan never carries an
\* approved_at).
C28_ApprovedAtIffLocked ==
    \A k \in DOMAIN plans :
        plans[k].approved_at # NoStamp
        <=> plans[k].status \in {STATUS_APPROVED, STATUS_UNLOCK_REQUESTED}

\* C29: the is_full value the manager approve and back-to-draft responses and
\* the manager dashboard rows report for a plan is true exactly when
\* plan.is_fully_filled() is true; the response to a successful manager
\* approve reports is_full = true and filled = 5.
C29_IsFullReported ==
    [][/\ (/\ req'.op \in {"admin_plan_approve_view", "admin_plan_back_to_draft_view"}
           /\ req'.ajax
           /\ req'.outcome \in {"approved", "already_approved", "to_draft", "already_draft"})
          => /\ req'.is_full <=> is_fully_filled(plans'[req'.key].days)
             /\ req'.outcome = "approved" => (req'.is_full /\ req'.filled = 5)
       /\ \A k \in DOMAIN plans' :
             admin_dashboard_row(plans'[k].days).is_full
             <=> is_fully_filled(plans'[k].days)]_vars

\* The import page and the rejected-rows download requested without a staff
\* login, the tables having been filled by a staff user through
\* admin_import_view (which keeps nothing in the session).
NoStaffNext ==
    \/ \E u \in Uploads : admin_import_view(TRUE, "POST", u)
    \/ \E u \in Uploads : manager_import_view(FALSE, "POST", u)
    \/ manager_import_view(FALSE, "GET", NoImport.sub)
    \/ download_rejected_view(FALSE)

SpecNoStaff == InitImport /\ [][NoStaffNext]_vars

\* C30: every import submission that writes School, Principal, Supervisor or
\* Assignment records, and every download of the rejected-rows spreadsheet, is
\* carried out only for a request authenticated as a staff user: a request
\* without a staff login causes no import write and receives no rejected-row
\* data.
C30_ImportsStaffOnly ==
    [][~imp'.staff => (db' = db /\ imp'.sent = <<>>)]_vars

====
